---- MODULE Spec2Model ----
(***************************************************************************)
(* Model of the Avro schema helpers of automation/py/avro-schema:          *)
(*   case_avro.py      the recursive case transformation of a schema       *)
(*   dacite_config.py  the type hooks and generate_dacite_config           *)
(* and of the cluster deployment of automation/py/hadoop_env.py (deploy).  *)
(*                                                                         *)
(* Python values are records [k, s, c] of one shape, so that any two of     *)
(* them can be compared:                                                   *)
(*   str    s = the characters (one-character strings), c = <<>>           *)
(*   list   s = <<>>, c = the elements                                     *)
(*   dict   s = the keys in insertion order, c = their values              *)
(*   null   s = <<>>, c = <<>>                                             *)
(*   raise  s = <<exception type, message>>, c = what the message names    *)
(***************************************************************************)
EXTENDS Integers, Sequences, FiniteSets, TLC

VARIABLES
    doc,        \* case_avro: the schema document object handed to the first call, as it is now
    doc0,       \* case_avro: that document as it was before the first call
    case_type,  \* case_avro: the case token of the calls
    arg,        \* case_avro: the argument of the last call, as it was when the call was made
    result,     \* case_avro: what the last call returned (or raised)
    result1,    \* case_avro: what the first call returned (or raised)
    calls,      \* case_avro: number of case_record calls made
    dacite_user_config,   \* dacite_config: the model's metadata dacite_config object, as it is now
    dacite_user_config0,  \* dacite_config: that object as it was before the first call
    cast_before,          \* dacite_config: the user's cast list as the last call found it
    config,               \* dacite_config: the Config the last call returned
    config1,              \* dacite_config: the Config the first call returned
    n_calls,              \* dacite_config: number of generate_dacite_config calls made
    hook_value, \* type hooks: the value handed to the hook
    hook_name,  \* type hooks: the hook that was called, "" before the call
    hook_out,   \* type hooks: what the hook returned (or raised)
    dep_pc,         \* deploy: where deploy is: "idle", "try", "execute", "except", "done"
    dep_started,    \* deploy: the steps whose execute has begun, in the order they began
    dep_completed,  \* deploy: the steps whose execute has returned, in that order
    dep_done,       \* deploy: the hosts on which the task of the step in hand has ended
    dep_failed,     \* deploy: those of them on which it raised
    dep_exc,        \* deploy: the exception that left the try block, "" if none
    dep_failed_at,  \* deploy: how many steps had begun when a step raised, 0 if none has
    dep_log,        \* deploy: the records deploy itself has logged
    dep_caller      \* deploy: what the caller has got: "", "returned" or the exception

caseVars == <<doc, doc0, case_type, arg, result, result1, calls>>
configVars == <<dacite_user_config, dacite_user_config0, cast_before, config, config1, n_calls>>
hookVars == <<hook_value, hook_name, hook_out>>
deployVars == <<dep_pc, dep_started, dep_completed, dep_done, dep_failed,
                dep_exc, dep_failed_at, dep_log, dep_caller>>
vars == <<caseVars, configVars, hookVars, deployVars>>

-----------------------------------------------------------------------------
(* Python values *)

Str(chars) == [k |-> "str", s |-> chars, c |-> <<>>]
Lst(xs) == [k |-> "list", s |-> <<>>, c |-> xs]
Item(key, val) == [key |-> key, val |-> val]
Dct(items) ==
    [k |-> "dict",
     s |-> [i \in 1..Len(items) |-> items[i].key],
     c |-> [i \in 1..Len(items) |-> items[i].val]]
Null == [k |-> "null", s |-> <<>>, c |-> <<>>]
Raise(type, message, named) == [k |-> "raise", s |-> <<type, message>>, c |-> named]
NoResult == [k |-> "none", s |-> <<>>, c |-> <<>>]

IsStr(x) == x.k = "str"
IsDict(x) == x.k = "dict"
IsList(x) == x.k = "list"
IsRaise(x) == x.k = "raise"

\* key in d
HasKey(d, key) == \E i \in 1..Len(d.s) : d.s[i] = key

\* d.get(key): the value, or None
Get(d, key) ==
    IF HasKey(d, key)
    THEN d.c[CHOOSE i \in 1..Len(d.s) : d.s[i] = key]
    ELSE Null

\* d[key] = val, keeping the position of an existing key
SetKey(d, key, val) ==
    IF HasKey(d, key)
    THEN [d EXCEPT !.c = [i \in 1..Len(d.s) |-> IF d.s[i] = key THEN val ELSE d.c[i]]]
    ELSE [d EXCEPT !.s = Append(d.s, key), !.c = Append(d.c, val)]

\* Python truthiness of a value of the model
Truthy(x) ==
    CASE x.k \in {"null", "none"} -> FALSE
      [] x.k = "str" -> Len(x.s) > 0
      [] OTHER -> Len(x.c) > 0

\* a component of which no call is made in a run
CaseIdle ==
    /\ doc = NoResult /\ doc0 = NoResult /\ case_type = ""
    /\ arg = NoResult /\ result = NoResult /\ result1 = NoResult /\ calls = 0
ConfigIdle ==
    /\ dacite_user_config = NoResult /\ dacite_user_config0 = NoResult
    /\ cast_before = <<>> /\ config = NoResult /\ config1 = NoResult /\ n_calls = 0
HooksIdle ==
    /\ hook_value = NoResult /\ hook_name = "" /\ hook_out = NoResult
DeployIdle ==
    /\ dep_pc = "idle" /\ dep_started = <<>> /\ dep_completed = <<>>
    /\ dep_done = {} /\ dep_failed = {} /\ dep_exc = "" /\ dep_failed_at = 0
    /\ dep_log = <<>> /\ dep_caller = ""

-----------------------------------------------------------------------------
(* Characters and the case functions of CASE_TO_FUNC *)

LowerSeq == <<"a","b","c","d","e","f","g","h","i","j","k","l","m",
              "n","o","p","q","r","s","t","u","v","w","x","y","z">>
UpperSeq == <<"A","B","C","D","E","F","G","H","I","J","K","L","M",
              "N","O","P","Q","R","S","T","U","V","W","X","Y","Z">>
Digits == {"0","1","2","3","4","5","6","7","8","9"}

UpperSet == { UpperSeq[i] : i \in 1..Len(UpperSeq) }
LowerSet == { LowerSeq[i] : i \in 1..Len(LowerSeq) }
\* str.lower() and str.upper() on one cased character
LowerOf == [c \in UpperSet |-> LowerSeq[CHOOSE i \in 1..Len(UpperSeq) : UpperSeq[i] = c]]
UpperOf == [c \in LowerSet |-> UpperSeq[CHOOSE i \in 1..Len(LowerSeq) : LowerSeq[i] = c]]

IsUpperCh(c) == c \in UpperSet
IsLowerCh(c) == c \in LowerSet
IsAlnumCh(c) == IsUpperCh(c) \/ IsLowerCh(c) \/ c \in Digits
IsSpaceCh(c) == c = " "
\* the separators casefy turns into a word boundary
IsSeparatorCh(c) == c \in {"-", ".", " "}

ToLowerCh(c) == IF IsUpperCh(c) THEN LowerOf[c] ELSE c
ToUpperCh(c) == IF IsLowerCh(c) THEN UpperOf[c] ELSE c

\* str.isupper(): some cased character and no lowercase one
IsUpperStr(s) ==
    /\ \E i \in 1..Len(s) : IsUpperCh(s[i])
    /\ \A i \in 1..Len(s) : ~IsLowerCh(s[i])

lowercase(s) == [i \in 1..Len(s) |-> ToLowerCh(s[i])]
uppercase(s) == [i \in 1..Len(s) |-> ToUpperCh(s[i])]

capitalcase(s) ==
    IF s = <<>> THEN <<>> ELSE <<ToUpperCh(s[1])>> \o Tail(s)

\* str.strip(): whitespace removed at both ends
RECURSIVE LStrip(_)
LStrip(s) ==
    IF s # <<>> /\ IsSpaceCh(s[1]) THEN LStrip(Tail(s)) ELSE s
RECURSIVE RStrip(_)
RStrip(s) ==
    IF s # <<>> /\ IsSpaceCh(s[Len(s)])
    THEN RStrip(SubSeq(s, 1, Len(s) - 1))
    ELSE s
trimcase(s) == RStrip(LStrip(s))

RECURSIVE alphanumcase(_)
alphanumcase(s) ==
    IF s = <<>> THEN <<>>
    ELSE (IF IsAlnumCh(s[1]) THEN <<s[1]>> ELSE <<>>) \o alphanumcase(Tail(s))

\* every separator becomes "_" and every capital starts a new word
RECURSIVE SplitWords(_)
SplitWords(s) ==
    IF s = <<>> THEN <<>>
    ELSE (CASE IsSeparatorCh(s[1]) -> <<"_">>
            [] IsUpperCh(s[1]) -> <<"_", ToLowerCh(s[1])>>
            [] OTHER -> <<s[1]>>) \o SplitWords(Tail(s))

\* runs of "_" collapse to one; none is left at either end
RECURSIVE JoinWords(_, _)
JoinWords(s, pending) ==
    IF s = <<>> THEN <<>>
    ELSE IF s[1] = "_" THEN JoinWords(Tail(s), TRUE)
    ELSE (IF pending THEN <<"_">> ELSE <<>>) \o <<s[1]>> \o JoinWords(Tail(s), FALSE)

StripUnderscores(s) ==
    IF \A i \in 1..Len(s) : s[i] = "_" THEN <<>>
    ELSE LET first == CHOOSE i \in 1..Len(s) :
                          s[i] # "_" /\ \A j \in 1..(i - 1) : s[j] = "_"
         IN  JoinWords(SubSeq(s, first, Len(s)), FALSE)

\* casefy.snakecase: an all-capitals string is one run of words in lower case
snakecase(s) ==
    IF s = <<>> THEN <<>>
    ELSE StripUnderscores(SplitWords(IF IsUpperStr(s) THEN lowercase(s) ELSE s))

\* the words of a snake_case string, each capitalised, joined
RECURSIVE CapWords(_, _)
CapWords(s, start) ==
    IF s = <<>> THEN <<>>
    ELSE IF s[1] = "_" THEN CapWords(Tail(s), TRUE)
    ELSE <<IF start THEN ToUpperCh(s[1]) ELSE ToLowerCh(s[1])>> \o CapWords(Tail(s), FALSE)

pascalcase(s) == CapWords(snakecase(s), TRUE)

camelcase(s) ==
    LET p == pascalcase(s)
    IN  IF p = <<>> THEN <<>> ELSE <<ToLowerCh(p[1])>> \o Tail(p)

constcase(s) == uppercase(snakecase(s))

\* casefy.separatorcase: snake_case with the separator in place of "_"
separatorcase(s, separator) ==
    LET sn == snakecase(s)
    IN  [i \in 1..Len(sn) |-> IF sn[i] = "_" THEN separator ELSE sn[i]]

kebabcase(s) == separatorcase(s, "-")
upperkebabcase(s) == uppercase(kebabcase(s))
pathcase(s) == separatorcase(s, "/")

\* the twelve tokens, the keys of CASE_TO_FUNC in their order
CaseTokens ==
    <<"camelcase", "capitalcase", "constcase", "lowercase", "pascalcase",
      "pathcase", "snakecase", "spinalcase", "upperkebabcase", "trimcase",
      "uppercase", "alphanumcase">>

ValidCase(t) == \E i \in 1..Len(CaseTokens) : CaseTokens[i] = t

\* CASE_TO_FUNC[t](s)
CASE_TO_FUNC(t, s) ==
    CASE t = "camelcase" -> camelcase(s)
      [] t = "capitalcase" -> capitalcase(s)
      [] t = "constcase" -> constcase(s)
      [] t = "lowercase" -> lowercase(s)
      [] t = "pascalcase" -> pascalcase(s)
      [] t = "pathcase" -> pathcase(s)
      [] t = "snakecase" -> snakecase(s)
      [] t = "spinalcase" -> kebabcase(s)
      [] t = "upperkebabcase" -> upperkebabcase(s)
      [] t = "trimcase" -> trimcase(s)
      [] t = "uppercase" -> uppercase(s)
      [] t = "alphanumcase" -> alphanumcase(s)

-----------------------------------------------------------------------------
(* case_avro.py: case_item and case_record *)

s_enum == <<"e","n","u","m">>
s_record == <<"r","e","c","o","r","d">>
s_array == <<"a","r","r","a","y">>
s_map == <<"m","a","p">>
s_string == <<"s","t","r","i","n","g">>
s_null == <<"n","u","l","l">>

\* fields.field_utils.ENUM
ENUM == Str(s_enum)

\* a case_record that takes no mapping for an enum definition
IsEnumDefNever(d) == FALSE

\* line 81: avro_schema_dict.get("type") == ENUM
IsEnumDef(d) == Get(d, "type") = ENUM

\* the first exception among the values, in evaluation order, or NoResult
FirstRaise(xs) ==
    IF \E i \in 1..Len(xs) : IsRaise(xs[i])
    THEN xs[CHOOSE i \in 1..Len(xs) :
                IsRaise(xs[i]) /\ \A j \in 1..(i - 1) : ~IsRaise(xs[j])]
    ELSE NoResult

\* line 48: ValueError(f"Unsupported case type '{case_type}'. Valid types are: {list(CASE_TO_FUNC.keys())}")
UnsupportedCase(ct) ==
    Raise("ValueError", "Unsupported case type",
          <<Str(<<ct>>), Lst([i \in 1..Len(CaseTokens) |-> Str(<<CaseTokens[i]>>)])>>)

RECURSIVE case_item(_, _)
RECURSIVE case_record(_, _)

\* lines 52-66: the value case_item stores under `key` for `value`
case_value(key, value, ct) ==
    IF key = "name"
    THEN Str(CASE_TO_FUNC(ct, value.s))
    ELSE IF IsDict(value) /\ HasKey(value, "name")
    THEN case_record(value, ct)
    ELSE IF IsList(value)
    THEN LET els == [j \in 1..Len(value.c) |->
                        IF IsDict(value.c[j])
                        THEN case_record(value.c[j], ct)
                        ELSE value.c[j]]
         IN  IF IsRaise(FirstRaise(els)) THEN FirstRaise(els) ELSE Lst(els)
    ELSE value

case_item(item, ct) ==
    IF ~ValidCase(ct)
    THEN UnsupportedCase(ct)
    ELSE LET vals == [i \in 1..Len(item.s) |-> case_value(item.s[i], item.c[i], ct)]
         IN  IF IsRaise(FirstRaise(vals))
             THEN FirstRaise(vals)
             ELSE [k |-> "dict", s |-> item.s, c |-> vals]

case_record(d, ct) ==
    IF IsEnumDef(d)
    THEN d
    ELSE LET fields == Get(d, "fields")
         IN  IF Truthy(fields)
             THEN LET new == [i \in 1..Len(fields.c) |-> case_item(fields.c[i], ct)]
                  IN  IF IsRaise(FirstRaise(new))
                      THEN FirstRaise(new)
                      ELSE SetKey(d, "fields", Lst(new))
             ELSE case_item(d, ct)

(* What the calls leave in the objects they were given.  case_record assigns *)
(* d["fields"] in place (line 87) and returns d itself; case_item builds a   *)
(* new dict but hands the dicts it holds to case_record, which writes them.  *)
(* An invalid token raises at the first case_item (line 48), before any      *)
(* assignment.                                                               *)
RECURSIVE after_item(_, _)
RECURSIVE after_record(_, _)

after_value(key, value, ct) ==
    IF key = "name"
    THEN value
    ELSE IF IsDict(value) /\ HasKey(value, "name")
    THEN after_record(value, ct)
    ELSE IF IsList(value)
    THEN Lst([j \in 1..Len(value.c) |->
                 IF IsDict(value.c[j])
                 THEN after_record(value.c[j], ct)
                 ELSE value.c[j]])
    ELSE value

after_item(item, ct) ==
    IF ~ValidCase(ct)
    THEN item
    ELSE [k |-> "dict", s |-> item.s,
          c |-> [i \in 1..Len(item.s) |-> after_value(item.s[i], item.c[i], ct)]]

after_record(d, ct) ==
    IF IsEnumDef(d)
    THEN d
    ELSE IF Truthy(Get(d, "fields"))
    THEN LET r == case_record(d, ct) IN IF IsRaise(r) THEN d ELSE r
    ELSE after_item(d, ct)

-----------------------------------------------------------------------------
(* The schema documents and the tokens the calls are made with *)

\* most fields a record of the documents has
MaxFields == 2
\* most case_record calls in a run; each later call is made on the object
\* the call before it returned
MaxApply == 2

n_fullName == <<"f","u","l","l","N","a","m","e">>
n_fullname == <<"f","u","l","l","n","a","m","e">>
n_x_y == <<"x","_","y">>
n_id == <<" ","i","d"," ">>
n_name == <<"n","a","m","e">>
n_PersonRecord == <<"P","e","r","s","o","n","R","e","c","o","r","d">>
n_favColor == <<"f","a","v","C","o","l","o","r">>
n_RED == <<"R","E","D">>
n_darkBlue == <<"d","a","r","k","B","l","u","e">>
n_adaLovelace == <<"a","d","a","L","o","v","e","l","a","c","e">>
n_myApp == <<"m","y","A","p","p">>

FieldNames == {n_fullName, n_fullname, n_x_y}

\* {"type": "enum", "name": "favColor", "symbols": ["RED", "darkBlue"]}
EnumDef ==
    Dct(<<Item("type", ENUM), Item("name", Str(n_favColor)),
          Item("symbols", Lst(<<Str(n_RED), Str(n_darkBlue)>>))>>)

\* {"type": "record", "name": "PersonRecord", "namespace": "myApp",
\*  "fields": [{"name": "name", "type": "string"}, {"name": " id ", "type": "string"}]}
NestedRec ==
    Dct(<<Item("type", Str(s_record)), Item("name", Str(n_PersonRecord)),
          Item("namespace", Str(n_myApp)),
          Item("fields", Lst(<<Dct(<<Item("name", Str(n_name)),
                                     Item("type", Str(s_string))>>),
                               Dct(<<Item("name", Str(n_id)),
                                     Item("type", Str(s_string))>>)>>))>>)
\* a value of NestedRec: {"name": "adaLovelace", " id ": "myApp"}
NestedValue ==
    Dct(<<Item("name", Str(n_adaLovelace)), Item(" id ", Str(n_myApp))>>)

\* {"type": "record", "name": "PersonRecord",
\*  "fields": [{"name": "name", "type": "string"}, {"name": "favColor", "type": <enum>}]}
InnerRec ==
    Dct(<<Item("type", Str(s_record)), Item("name", Str(n_PersonRecord)),
          Item("fields", Lst(<<Dct(<<Item("name", Str(n_name)),
                                     Item("type", Str(s_string))>>),
                               Dct(<<Item("name", Str(n_favColor)),
                                     Item("type", EnumDef)>>)>>))>>)
\* a value of InnerRec: {"name": "adaLovelace", "favColor": "RED"}
InnerValue ==
    Dct(<<Item("name", Str(n_adaLovelace)), Item("favColor", Str(n_RED))>>)

ArrayOf(items) == Dct(<<Item("type", Str(s_array)), Item("items", items)>>)

\* the field named n of each shape the schema generator renders: a primitive
\* with doc and aliases, an enum, a nested record with a default, an array of
\* records with a default, an optional nested record
FieldsNamed(n) ==
    { Dct(<<Item("name", Str(n)), Item("type", Str(s_string)),
            Item("doc", Str(n_fullName)), Item("aliases", Lst(<<Str(n_fullName)>>))>>),
      Dct(<<Item("name", Str(n)), Item("type", EnumDef)>>),
      Dct(<<Item("name", Str(n)), Item("type", NestedRec),
            Item("default", NestedValue)>>),
      Dct(<<Item("name", Str(n)), Item("type", ArrayOf(InnerRec)),
            Item("default", Lst(<<InnerValue>>))>>),
      Dct(<<Item("name", Str(n)), Item("type", Lst(<<Str(s_null), NestedRec>>)),
            Item("default", Null)>>) }

\* field lists of at most MaxFields fields, no two with the same name
RECURSIVE FieldLists(_)
FieldLists(n) ==
    IF n = 0 THEN { <<>> }
    ELSE LET shorter == FieldLists(n - 1)
         IN  shorter \cup
             { Append(fs, f) :
                 fs \in { x \in shorter : Len(x) = n - 1 },
                 f \in UNION { FieldsNamed(nm) : nm \in FieldNames } }

DistinctNames(fs) ==
    \A i, j \in 1..Len(fs) : i # j => Get(fs[i], "name") # Get(fs[j], "name")

RecordDoc(fs) ==
    Dct(<<Item("type", Str(s_record)), Item("name", Str(n_PersonRecord)),
          Item("fields", Lst(fs))>>)

\* a record with fields, a record with an empty field list, a nameless
\* mapping, an enum definition
Docs ==
    { RecordDoc(fs) : fs \in { x \in FieldLists(MaxFields) : DistinctNames(x) } }
        \cup { ArrayOf(NestedRec), EnumDef }

InvalidTokens == {"SCREAMING", ""}
Tokens == { CaseTokens[i] : i \in 1..Len(CaseTokens) } \cup InvalidTokens

-----------------------------------------------------------------------------
(* The calls *)

InitCase ==
    /\ doc \in Docs
    /\ doc0 = doc
    /\ case_type \in Tokens
    /\ arg = NoResult
    /\ result = NoResult
    /\ result1 = NoResult
    /\ calls = 0
    /\ ConfigIdle
    /\ HooksIdle
    /\ DeployIdle

\* case_record(doc, case_type)
FirstCall ==
    /\ calls = 0
    /\ arg' = doc
    /\ result' = case_record(doc, case_type)
    /\ result1' = result'
    /\ doc' = after_record(doc, case_type)
    /\ calls' = 1
    /\ UNCHANGED <<doc0, case_type, configVars, hookVars, deployVars>>

\* case_record(r, case_type), r the object the call before returned
Reapply ==
    /\ calls > 0
    /\ calls < MaxApply
    /\ ~IsRaise(result)
    /\ arg' = result
    /\ result' = case_record(result, case_type)
    /\ doc' = after_record(doc, case_type)
    /\ calls' = calls + 1
    /\ UNCHANGED <<doc0, case_type, result1, configVars, hookVars, deployVars>>

NextCase == FirstCall \/ Reapply

SpecCase == InitCase /\ [][NextCase]_vars

-----------------------------------------------------------------------------
(* Properties of the case transformation *)

RECURSIVE Flatten(_)
Flatten(ss) == IF ss = <<>> THEN <<>> ELSE Head(ss) \o Flatten(Tail(ss))

\* an Avro enum definition, recognised by its own "type"
EnumTyped(x) == IsDict(x) /\ Get(x, "type") = Str(s_enum)

\* the keys under which a schema holds further schema
StructureKeys == {"type", "items", "values", "fields"}

\* the names of the records and fields of a schema, in document order:
\* those of the mapping itself and of everything under its structure keys,
\* enum definitions left out
RECURSIVE TypeNames(_)
TypeNames(x) ==
    IF IsDict(x)
    THEN IF EnumTyped(x) THEN <<>>
         ELSE Flatten([i \in 1..Len(x.s) |->
                 IF x.s[i] = "name" THEN <<x.c[i].s>>
                 ELSE IF x.s[i] \in StructureKeys THEN TypeNames(x.c[i])
                 ELSE <<>>])
    ELSE IF IsList(x)
    THEN Flatten([i \in 1..Len(x.c) |-> TypeNames(x.c[i])])
    ELSE <<>>

\* the schema with every name of TypeNames blanked: what is left is the
\* data a case transformation has no business with (default, doc, aliases,
\* namespace, primitive type strings, enum definitions)
RECURSIVE EraseNames(_)
EraseNames(x) ==
    IF IsDict(x)
    THEN IF EnumTyped(x) THEN x
         ELSE [x EXCEPT !.c = [i \in 1..Len(x.s) |->
                      IF x.s[i] = "name" THEN Null
                      ELSE IF x.s[i] \in StructureKeys THEN EraseNames(x.c[i])
                      ELSE x.c[i]]]
    ELSE IF IsList(x)
    THEN Lst([i \in 1..Len(x.c) |-> EraseNames(x.c[i])])
    ELSE x

\* the enum definitions of a value, at any depth, in document order
RECURSIVE EnumsOf(_)
EnumsOf(x) ==
    IF EnumTyped(x) THEN <<x>>
    ELSE IF IsDict(x) \/ IsList(x)
    THEN Flatten([i \in 1..Len(x.c) |-> EnumsOf(x.c[i])])
    ELSE <<>>

\* in every record of the value, at any depth, no two fields have one name
RECURSIVE FieldNamesDistinct(_)
FieldNamesDistinct(x) ==
    IF IsDict(x) \/ IsList(x)
    THEN /\ (IsDict(x) /\ IsList(Get(x, "fields"))) =>
                LET fs == Get(x, "fields").c
                IN  \A i, j \in 1..Len(fs) :
                        (i # j /\ IsDict(fs[i]) /\ IsDict(fs[j]))
                            => Get(fs[i], "name") # Get(fs[j], "name")
         /\ \A i \in 1..Len(x.c) : FieldNamesDistinct(x.c[i])
    ELSE TRUE

Returned == calls >= 1 /\ ValidCase(case_type)

\* C1: a case transformation with a supported style returns a document in
\* which every name of the schema (the record's own name, its fields' names,
\* the names of records and fields nested in field types, unions, array
\* items and map values) is the style's rendering of the name it had; enum
\* definitions are left as they are.
C1_EveryNameRewritten ==
    Returned =>
        /\ ~IsRaise(result)
        /\ TypeNames(result) =
               [i \in 1..Len(TypeNames(arg)) |->
                   CASE_TO_FUNC(case_type, TypeNames(arg)[i])]

\* C2: a case transformation with a supported style either fails (two
\* fields of one record render to the same name) or returns a document in
\* which the field names of each record are pairwise distinct.
C2_NoDuplicateFieldNames ==
    Returned => (IsRaise(result) \/ FieldNamesDistinct(result))

\* C3: a case transformation with a token that is not one of the twelve
\* fails with the error that names the token and lists the twelve, whatever
\* the document is, and leaves the document as it was before the call.
C3_InvalidTokenFails ==
    (calls >= 1 /\ ~ValidCase(case_type)) =>
        /\ IsRaise(result)
        /\ result.s = <<"ValueError", "Unsupported case type">>
        /\ result.c = <<Str(<<case_type>>),
                        Lst([i \in 1..Len(CaseTokens) |-> Str(<<CaseTokens[i]>>)])>>
        /\ doc = doc0

C5_SecondApplicationEqual ==
    (calls >= 2 /\ ValidCase(case_type)) => result = result1

\* C10: the returned document differs from the document given in names of
\* records and fields only: default, doc, aliases, namespace and primitive
\* type strings are equal, also where a default is a mapping with a name key
\* or a list of such mappings.
C10_OnlyNamesChange ==
    Returned => (~IsRaise(result) /\ EraseNames(result) = EraseNames(arg))

-----------------------------------------------------------------------------
(* dacite_config.py: generate_dacite_config *)

\* most casts the user's cast list has before the first call
MaxUserCast == 2
\* most generate_dacite_config calls in a run
MaxCalls == 3

\* a class, a function, a bool
Ty(name) == [k |-> "type", s |-> <<name>>, c |-> <<>>]
Fn(name) == [k |-> "function", s |-> <<name>>, c |-> <<>>]
Bool(b) == [k |-> "bool", s |-> <<IF b THEN "True" ELSE "False">>, c |-> <<>>]

\* model._klass and model._klass.__name__
ModelKlass == Ty("PersonRecord")
ModelName == "PersonRecord"

\* line 141: [typing.Tuple, tuple, enum.Enum]
EnforcedCasts == <<Ty("typing.Tuple"), Ty("tuple"), Ty("enum.Enum")>>

\* lines 119-132: the default configuration, built anew by every call
DefaultConfig ==
    Dct(<<Item("check_types", Bool(FALSE)),
          Item("cast", Lst(<<>>)),
          Item("forward_references", Dct(<<Item(ModelName, ModelKlass)>>)),
          Item("type_hooks",
               Dct(<<Item("datetime", Fn("parse_datetime")),
                     Item("date", Fn("parse_date")),
                     Item("time", Fn("parse_time")),
                     Item("bytes", Fn("parse_bytes")),
                     Item("uuid.UUID", Fn("parse_uuid"))>>))>>)

\* d.update(other): every key of other set in d to the value other has
RECURSIVE Update(_, _)
Update(d, other) ==
    IF other.s = <<>>
    THEN d
    ELSE Update(SetKey(d, other.s[1], other.c[1]),
                [other EXCEPT !.s = Tail(@), !.c = Tail(@)])

\* lines 135-136: the dict Config is made of
MergedConfig(user) ==
    IF Truthy(user) THEN Update(DefaultConfig, user) ELSE DefaultConfig

\* the enforced casts put in front of the list
ExtendCastFirst(cast) == EnforcedCasts \o cast

\* line 141: config.cast.extend([typing.Tuple, tuple, enum.Enum])
ExtendCast(cast) == cast \o EnforcedCasts

\* the cast list of the user's configuration; none is an empty one
UserCast(user) ==
    IF IsDict(user) /\ HasKey(user, "cast") THEN Get(user, "cast").c ELSE <<>>

\* Config keeps the very list object of the user's "cast" entry
CastAliased(user) == Truthy(user) /\ HasKey(user, "cast")

RECURSIVE SeqsUpTo(_, _)
SeqsUpTo(S, n) ==
    IF n = 0 THEN { <<>> }
    ELSE LET shorter == SeqsUpTo(S, n - 1)
         IN  shorter \cup
             { Append(x, e) : x \in { y \in shorter : Len(y) = n - 1 }, e \in S }

\* the dacite_config a model's Meta may declare: none, or a dict with any of
\* cast, type_hooks, forward_references and check_types
UserConfigs ==
    { Null } \cup
    { Dct(a \o b \o c \o d) :
        a \in { <<>> } \cup { <<Item("cast", Lst(l))>> :
                                l \in SeqsUpTo({Ty("int"), Ty("str")}, MaxUserCast) },
        b \in { <<>>,
                <<Item("type_hooks", Dct(<<Item("datetime", Fn("my_datetime"))>>))>>,
                <<Item("type_hooks", Dct(<<Item("int", Fn("my_int"))>>))>> },
        c \in { <<>>,
                <<Item("forward_references", Dct(<<Item("Address", Ty("Address"))>>))>> },
        d \in { <<>>, <<Item("check_types", Bool(TRUE))>> } }

InitConfig ==
    /\ dacite_user_config \in UserConfigs
    /\ dacite_user_config0 = dacite_user_config
    /\ cast_before = <<>>
    /\ config = NoResult
    /\ config1 = NoResult
    /\ n_calls = 0
    /\ CaseIdle
    /\ HooksIdle
    /\ DeployIdle

\* generate_dacite_config(model); model.generate_schema() (line 114) leaves
\* the metadata as it is
generate_dacite_config ==
    /\ n_calls < MaxCalls
    /\ LET merged == MergedConfig(dacite_user_config)
           cast == ExtendCast(Get(merged, "cast").c)
       IN  /\ cast_before' = UserCast(dacite_user_config)
           /\ config' = SetKey(merged, "cast", Lst(cast))
           /\ dacite_user_config' =
                  IF CastAliased(dacite_user_config)
                  THEN SetKey(dacite_user_config, "cast", Lst(cast))
                  ELSE dacite_user_config
           /\ config1' =
                  IF n_calls = 0 THEN config'
                  ELSE IF CastAliased(dacite_user_config)
                  THEN SetKey(config1, "cast", Lst(cast))
                  ELSE config1
    /\ n_calls' = n_calls + 1
    /\ UNCHANGED <<dacite_user_config0, caseVars, hookVars, deployVars>>

NextConfig == generate_dacite_config

SpecConfig == InitConfig /\ [][NextConfig]_vars

-----------------------------------------------------------------------------
(* Properties of generate_dacite_config *)

\* C6: the cast list of the returned configuration is the user's cast list,
\* as the call found it, followed by the tuple and enum casts: every cast of
\* the user is kept, and typing.Tuple, tuple and enum.Enum come after them,
\* whatever the user's configuration is.
C6_EnforcedCastsAfterUserCasts ==
    n_calls >= 1 =>
        LET cast == Get(config, "cast").c
            n == Len(cast_before)
        IN  /\ Len(cast) = n + 3
            /\ SubSeq(cast, 1, n) = cast_before
            /\ SubSeq(cast, n + 1, n + 3) =
                   <<Ty("typing.Tuple"), Ty("tuple"), Ty("enum.Enum")>>

\* C6 happens: a call has been made for a model whose configuration has casts.
C6_Witness ==
    /\ n_calls = 1
    /\ Len(cast_before) >= 1
    /\ Get(config, "cast").c =
           cast_before \o <<Ty("typing.Tuple"), Ty("tuple"), Ty("enum.Enum")>>

\* C7: in the returned configuration every type hook and forward reference
\* the user supplies has the user's value, and every default type hook and
\* the model's self reference whose key the user does not supply is still
\* there with its default value.
C7_MergedEntryByEntry ==
    n_calls >= 1 =>
        \A m \in {"type_hooks", "forward_references"} :
            LET user == IF IsDict(dacite_user_config0)
                        THEN Get(dacite_user_config0, m) ELSE Null
                default == Get(DefaultConfig, m)
                built == Get(config, m)
            IN  /\ IsDict(built)
                /\ IsDict(user) =>
                      \A i \in 1..Len(user.s) : Get(built, user.s[i]) = user.c[i]
                /\ \A i \in 1..Len(default.s) :
                      ~(IsDict(user) /\ HasKey(user, default.s[i]))
                          => Get(built, default.s[i]) = default.c[i]

\* C8: every call returns a configuration equal to the one the first call
\* returned, and the configuration declared in the model's metadata is, after
\* every call, what it was before the first.
C8_CallsIdempotent ==
    n_calls >= 1 =>
        /\ config = config1
        /\ dacite_user_config = dacite_user_config0

-----------------------------------------------------------------------------
(* dacite_config.py: the type hooks *)

\* values of the hooks' target types and of other types a decoded record holds
DateV(d) == [k |-> "date", s |-> d, c |-> <<>>]
TimeV(t) == [k |-> "time", s |-> t, c |-> <<>>]
\* a datetime: its date() and its time()
DateTimeV(d, t) == [k |-> "datetime", s |-> <<>>, c |-> <<DateV(d), TimeV(t)>>]
BytesV(bs) == [k |-> "bytes", s |-> bs, c |-> <<>>]
\* a UUID: its 32 hexadecimal digits
UuidV(hex) == [k |-> "uuid", s |-> hex, c |-> <<>>]
IntV(digits) == [k |-> "int", s |-> digits, c |-> <<>>]

t_datetime == <<"2","0","2","4","-","0","1","-","0","2","T","0","3",":","0","4",":","0","5">>
t_date == <<"2","0","2","4","-","0","1","-","0","2">>
t_time == <<"0","3",":","0","4",":","0","5">>
t_not_a_date == <<"n","o","t","-","a","-","d","a","t","e">>
t_feb30 == <<"2","0","2","4","-","0","2","-","3","0">>
t_digits == <<"9","9","9","9","9","9","9","9","9","9","9","9","9","9","9","9","9","9","9","9">>
t_uuid == <<"1","2","3","4","5","6","7","8","-","1","2","3","4","-","5","6","7","8","-","1","2","3","4","-","5","6","7","8","1","2","3","4","A","B","C","D">>
t_uuid_lower == <<"1","2","3","4","5","6","7","8","-","1","2","3","4","-","5","6","7","8","-","1","2","3","4","-","5","6","7","8","1","2","3","4","a","b","c","d">>
t_abc == <<"a","b","c">>
\* one character each: a lone surrogate and a letter outside ASCII
ch_surrogate == "U+D800"
ch_eacute == "U+00E9"
\* the day of the call, which dateutil takes for a text without a date
t_today == <<"t","o","d","a","y">>
t_midnight == <<"0","0",":","0","0",":","0","0">>

DigitSeq == <<"0","1","2","3","4","5","6","7","8","9">>
DigitVal(ch) == (CHOOSE i \in 1..Len(DigitSeq) : DigitSeq[i] = ch) - 1
AllDigits(t) == \A i \in 1..Len(t) : t[i] \in Digits
RECURSIVE Num(_)
Num(t) == IF t = <<>> THEN 0 ELSE Num(SubSeq(t, 1, Len(t) - 1)) * 10 + DigitVal(t[Len(t)])

IsLeap(y) == (y % 4 = 0 /\ y % 100 # 0) \/ y % 400 = 0
DaysIn(y, m) ==
    IF m = 2 THEN (IF IsLeap(y) THEN 29 ELSE 28)
    ELSE IF m \in {4, 6, 9, 11} THEN 30 ELSE 31

\* YYYY-MM-DD
DateShaped(t) ==
    /\ Len(t) = 10
    /\ t[5] = "-" /\ t[8] = "-"
    /\ AllDigits(SubSeq(t, 1, 4)) /\ AllDigits(SubSeq(t, 6, 7)) /\ AllDigits(SubSeq(t, 9, 10))
\* the year, month and day make a date of the calendar
DateInCalendar(t) ==
    LET y == Num(SubSeq(t, 1, 4))
        m == Num(SubSeq(t, 6, 7))
        d == Num(SubSeq(t, 9, 10))
    IN  y >= 1 /\ m \in 1..12 /\ d \in 1..DaysIn(y, m)
\* HH:MM:SS
TimeShaped(t) ==
    /\ Len(t) = 8
    /\ t[3] = ":" /\ t[6] = ":"
    /\ AllDigits(SubSeq(t, 1, 2)) /\ AllDigits(SubSeq(t, 4, 5)) /\ AllDigits(SubSeq(t, 7, 8))
TimeOnClock(t) ==
    /\ Num(SubSeq(t, 1, 2)) \in 0..23
    /\ Num(SubSeq(t, 4, 5)) \in 0..59
    /\ Num(SubSeq(t, 7, 8)) \in 0..59

\* dateutil.parser.ParserError, a ValueError: the text has no date or time,
\* or has one the calendar does not have
ParserError == Raise("ParserError", "Unknown string format", <<>>)
\* datetime.replace with a year that no C integer holds
OverflowError == Raise("OverflowError", "Python int too large to convert to C int", <<>>)

\* lines 31, 48, 66: parser.parse(value), for the texts of ISO shape, of
\* digits only, and those dateutil finds no date in
dateutil_parse(t) ==
    IF DateShaped(t)
    THEN IF DateInCalendar(t) THEN DateTimeV(t, t_midnight) ELSE ParserError
    ELSE IF Len(t) = 19 /\ DateShaped(SubSeq(t, 1, 10)) /\ t[11] = "T"
                        /\ TimeShaped(SubSeq(t, 12, 19))
    THEN IF DateInCalendar(SubSeq(t, 1, 10)) /\ TimeOnClock(SubSeq(t, 12, 19))
         THEN DateTimeV(SubSeq(t, 1, 10), SubSeq(t, 12, 19))
         ELSE ParserError
    ELSE IF TimeShaped(t)
    THEN IF TimeOnClock(t) THEN DateTimeV(t_today, t) ELSE ParserError
    ELSE IF Len(t) >= 15 /\ AllDigits(t) /\ t[1] # "0"
    THEN OverflowError
    ELSE ParserError

\* except (ValueError, TypeError): the exception types the hooks catch
IsCaught(e) == e.s[1] \in {"ValueError", "TypeError", "ParserError", "UnicodeEncodeError"}

\* raise ValueError(f"Invalid {target} format: {value}") from e
InvalidFormat(target, value) == Raise("ValueError", "Invalid format", <<Str(<<target>>), value>>)

\* lines 29-34
parse_datetime(value) ==
    IF IsStr(value)
    THEN LET r == dateutil_parse(value.s)
         IN  IF IsRaise(r)
             THEN (IF IsCaught(r) THEN InvalidFormat("datetime", value) ELSE r)
             ELSE r
    ELSE value

\* lines 46-52
parse_date(value) ==
    IF IsStr(value)
    THEN LET dt == dateutil_parse(value.s)
         IN  IF IsRaise(dt)
             THEN (IF IsCaught(dt) THEN InvalidFormat("date", value) ELSE dt)
             ELSE dt.c[1]
    ELSE value

\* lines 64-70
parse_time(value) ==
    IF IsStr(value)
    THEN LET dt == dateutil_parse(value.s)
         IN  IF IsRaise(dt)
             THEN (IF IsCaught(dt) THEN InvalidFormat("time", value) ELSE dt)
             ELSE dt.c[2]
    ELSE value

\* the UTF-8 bytes of a character; those of an ASCII character are written
\* as the character
Utf8(ch) == IF ch = ch_eacute THEN <<"0xC3", "0xA9">> ELSE <<ch>>
RECURSIVE Utf8All(_)
Utf8All(t) == IF t = <<>> THEN <<>> ELSE Utf8(Head(t)) \o Utf8All(Tail(t))

\* str.encode(): UTF-8 has no encoding of a lone surrogate
str_encode(t) ==
    IF \E i \in 1..Len(t) : t[i] = ch_surrogate
    THEN Raise("UnicodeEncodeError", "surrogates not allowed", <<>>)
    ELSE BytesV(Utf8All(t))

\* lines 82-84: no exception is caught
parse_bytes(value) ==
    IF IsStr(value) THEN str_encode(value.s) ELSE value

HexDigits == Digits \cup {"a","b","c","d","e","f"} \cup {"A","B","C","D","E","F"}
RECURSIVE Without(_, _)
Without(t, ch) ==
    IF t = <<>> THEN <<>>
    ELSE IF Head(t) = ch THEN Without(Tail(t), ch)
    ELSE <<Head(t)>> \o Without(Tail(t), ch)

\* uuid.UUID(hex): the hyphens taken out, 32 hexadecimal digits are left
\* (no text of the model has the urn:, uuid: or brace forms)
uuid_UUID(t) ==
    LET hex == Without(t, "-")
    IN  IF Len(hex) = 32 /\ \A i \in 1..32 : hex[i] \in HexDigits
        THEN UuidV([i \in 1..32 |-> ToLowerCh(hex[i])])
        ELSE Raise("ValueError", "badly formed hexadecimal UUID string", <<>>)

\* lines 96-101
parse_uuid(value) ==
    IF IsStr(value)
    THEN LET r == uuid_UUID(value.s)
         IN  IF IsRaise(r)
             THEN (IF IsCaught(r) THEN InvalidFormat("UUID", value) ELSE r)
             ELSE r
    ELSE value

\* what a decoded record may hold in a field: texts, values of the target
\* types, and values of other types
HookTexts ==
    { t_datetime, t_date, t_time, t_not_a_date, t_feb30, t_digits, t_uuid,
      t_abc, <<>>, <<ch_surrogate>>, <<"a", ch_eacute>> }
HookNatives ==
    { DateTimeV(t_date, t_time), DateTimeV(t_date, t_midnight), DateV(t_date),
      TimeV(t_time), BytesV(t_abc), BytesV(<<>>), UuidV(Without(t_uuid_lower, "-")),
      IntV(<<"5">>), Null }
HookValues == { Str(t) : t \in HookTexts } \cup HookNatives

InitHooks ==
    /\ hook_value \in HookValues
    /\ hook_name = ""
    /\ hook_out = NoResult
    /\ CaseIdle
    /\ ConfigIdle
    /\ DeployIdle

Call_parse_datetime ==
    /\ hook_name = ""
    /\ hook_name' = "parse_datetime"
    /\ hook_out' = parse_datetime(hook_value)
    /\ UNCHANGED <<hook_value, caseVars, configVars, deployVars>>

Call_parse_date ==
    /\ hook_name = ""
    /\ hook_name' = "parse_date"
    /\ hook_out' = parse_date(hook_value)
    /\ UNCHANGED <<hook_value, caseVars, configVars, deployVars>>

Call_parse_time ==
    /\ hook_name = ""
    /\ hook_name' = "parse_time"
    /\ hook_out' = parse_time(hook_value)
    /\ UNCHANGED <<hook_value, caseVars, configVars, deployVars>>

Call_parse_bytes ==
    /\ hook_name = ""
    /\ hook_name' = "parse_bytes"
    /\ hook_out' = parse_bytes(hook_value)
    /\ UNCHANGED <<hook_value, caseVars, configVars, deployVars>>

Call_parse_uuid ==
    /\ hook_name = ""
    /\ hook_name' = "parse_uuid"
    /\ hook_out' = parse_uuid(hook_value)
    /\ UNCHANGED <<hook_value, caseVars, configVars, deployVars>>

NextHooks ==
    \/ Call_parse_datetime
    \/ Call_parse_date
    \/ Call_parse_time
    \/ Call_parse_bytes
    \/ Call_parse_uuid

SpecHooks == InitHooks /\ [][NextHooks]_vars

-----------------------------------------------------------------------------
(* Properties of the type hooks *)

\* the texts that are no date, no time and no date with a time
NoTemporalTexts == { t_not_a_date, t_feb30, t_digits, t_abc, <<>> }
\* the texts that are no UUID
NoUuidTexts == HookTexts \ { t_uuid }

\* the target type of a hook that parses, as the error names it, and the kind
\* of value that is native to it
TargetOf(h) ==
    CASE h = "parse_datetime" -> "datetime"
      [] h = "parse_date" -> "date"
      [] h = "parse_time" -> "time"
      [] h = "parse_uuid" -> "UUID"
NativeKindOf(h) ==
    CASE h = "parse_datetime" -> "datetime"
      [] h = "parse_date" -> "date"
      [] h = "parse_time" -> "time"
      [] h = "parse_uuid" -> "uuid"

\* C9: a datetime, date, time or UUID hook given a text that is no value of
\* its target type fails with the invalid-format error that names the text
\* and the target type; given a value of its target type it returns that
\* value; the bytes hook never fails, returns bytes for a text and returns
\* bytes given to it as they are.
C9_HooksFailOrPassThrough ==
    hook_name # "" =>
        /\ hook_name \in {"parse_datetime", "parse_date", "parse_time", "parse_uuid"} =>
              /\ (IsStr(hook_value) /\ hook_value.s \in
                      (IF hook_name = "parse_uuid" THEN NoUuidTexts ELSE NoTemporalTexts))
                    => /\ IsRaise(hook_out)
                       /\ hook_out.s = <<"ValueError", "Invalid format">>
                       /\ hook_out.c = <<Str(<<TargetOf(hook_name)>>), hook_value>>
              /\ hook_value.k = NativeKindOf(hook_name) => hook_out = hook_value
        /\ hook_name = "parse_bytes" =>
              /\ ~IsRaise(hook_out)
              /\ IsStr(hook_value) => hook_out.k = "bytes"
              /\ hook_value.k = "bytes" => hook_out = hook_value

-----------------------------------------------------------------------------
(* hadoop_env.py: deploy *)

\* env.roledefs (lines 22-26); 'all' is the master followed by the slaves
masternode == <<"192.168.56.184">>
slavenodes == <<"192.168.56.185", "192.168.56.186", "192.168.56.187">>
allnodes == masternode \o slavenodes

\* lines 226-238: the tasks deploy hands to execute, in the order of the code
DeploySteps ==
    <<"create_hduser", "update_hosts_file", "install_java", "update_bashrc",
      "disable_ipv6", "download_hadoop", "download_test_files",
      "configure_hadoop", "format_namenode", "start_hadoop", "test_mapreduce",
      "verify_mapreduce", "stop_hadoop">>

\* the tasks decorated @roles('all'); the others are @roles('masternode')
RoleAll ==
    {"install_java", "create_hduser", "update_bashrc", "update_hosts_file",
     "disable_ipv6", "download_hadoop", "configure_hadoop"}
\* the tasks decorated @parallel
Parallel ==
    {"install_java", "create_hduser", "update_bashrc", "disable_ipv6",
     "download_hadoop", "configure_hadoop"}

\* the hosts execute runs the task on, in the order it takes them
HostsOf(task) == IF task \in RoleAll THEN allnodes ELSE masternode
HostSet(task) == { HostsOf(task)[i] : i \in 1..Len(HostsOf(task)) }

\* what a task can leave with: an Exception, which the task's own handler
\* logs and raises again, or the SystemExit of Fabric's abort and of exit()
\* (line 65), which no "except Exception" catches
TaskExceptions == {"Exception", "SystemExit"}

\* a deploy whose handler logs and returns
deploy_except_returns(e) == "returned"

\* lines 240-242: what the handler of deploy leaves its caller with: raise
deploy_except(e) == e

\* the step in hand
CurStep == dep_started[Len(dep_started)]
\* the host a serial execute runs the task on next
NextHost ==
    HostsOf(CurStep)[CHOOSE i \in 1..Len(HostsOf(CurStep)) :
        /\ HostsOf(CurStep)[i] \notin dep_done
        /\ \A j \in 1..(i - 1) : HostsOf(CurStep)[j] \in dep_done]

InitDeploy ==
    /\ dep_pc = "try"
    /\ dep_started = <<>>
    /\ dep_completed = <<>>
    /\ dep_done = {}
    /\ dep_failed = {}
    /\ dep_exc = ""
    /\ dep_failed_at = 0
    /\ dep_log = <<>>
    /\ dep_caller = ""
    /\ CaseIdle
    /\ ConfigIdle
    /\ HooksIdle

\* execute(task) is entered for the next task of the try block
Execute ==
    /\ dep_pc = "try"
    /\ Len(dep_started) < Len(DeploySteps)
    /\ dep_started' = Append(dep_started, DeploySteps[Len(dep_started) + 1])
    /\ dep_pc' = "execute"
    /\ dep_done' = {}
    /\ dep_failed' = {}
    /\ UNCHANGED <<dep_completed, dep_exc, dep_failed_at, dep_log, dep_caller,
                   caseVars, configVars, hookVars>>

\* a task without @parallel returns on the host in turn
SerialTaskReturns ==
    /\ dep_pc = "execute"
    /\ CurStep \notin Parallel
    /\ dep_done # HostSet(CurStep)
    /\ dep_done' = dep_done \cup {NextHost}
    /\ UNCHANGED <<dep_pc, dep_started, dep_completed, dep_failed, dep_exc,
                   dep_failed_at, dep_log, dep_caller, caseVars, configVars, hookVars>>

\* a task without @parallel raises on the host in turn: execute lets the
\* exception through; an Exception reaches the handler of deploy, a
\* SystemExit passes it
SerialTaskRaises ==
    /\ dep_pc = "execute"
    /\ CurStep \notin Parallel
    /\ dep_done # HostSet(CurStep)
    /\ \E e \in TaskExceptions :
          /\ dep_exc' = e
          /\ dep_pc' = IF e = "Exception" THEN "except" ELSE "done"
          /\ dep_caller' = IF e = "Exception" THEN dep_caller ELSE e
    /\ dep_done' = dep_done \cup {NextHost}
    /\ dep_failed' = {NextHost}
    /\ dep_failed_at' = Len(dep_started)
    /\ UNCHANGED <<dep_started, dep_completed, dep_log, caseVars, configVars, hookVars>>

\* the job of a @parallel task ends on one of the hosts, returning or raising
ParallelJobEnds ==
    /\ dep_pc = "execute"
    /\ CurStep \in Parallel
    /\ \E h \in HostSet(CurStep) \ dep_done :
          /\ dep_done' = dep_done \cup {h}
          /\ \E raised \in BOOLEAN :
                dep_failed' = IF raised THEN dep_failed \cup {h} ELSE dep_failed
    /\ UNCHANGED <<dep_pc, dep_started, dep_completed, dep_exc, dep_failed_at,
                   dep_log, dep_caller, caseVars, configVars, hookVars>>

\* every job of a @parallel task has ended and one has raised: execute aborts
ParallelAbort ==
    /\ dep_pc = "execute"
    /\ CurStep \in Parallel
    /\ dep_done = HostSet(CurStep)
    /\ dep_failed # {}
    /\ dep_exc' = "SystemExit"
    /\ dep_failed_at' = Len(dep_started)
    /\ dep_pc' = "done"
    /\ dep_caller' = "SystemExit"
    /\ UNCHANGED <<dep_started, dep_completed, dep_done, dep_failed, dep_log,
                   caseVars, configVars, hookVars>>

\* execute returns: the task has returned on every host
ExecuteReturns ==
    /\ dep_pc = "execute"
    /\ dep_done = HostSet(CurStep)
    /\ dep_failed = {}
    /\ dep_completed' = Append(dep_completed, CurStep)
    /\ dep_pc' = "try"
    /\ UNCHANGED <<dep_started, dep_done, dep_failed, dep_exc, dep_failed_at,
                   dep_log, dep_caller, caseVars, configVars, hookVars>>

\* line 239, and the return of deploy
LogCompleted ==
    /\ dep_pc = "try"
    /\ Len(dep_started) = Len(DeploySteps)
    /\ dep_log' = Append(dep_log, <<"INFO", "Deployment completed successfully.">>)
    /\ dep_pc' = "done"
    /\ dep_caller' = "returned"
    /\ UNCHANGED <<dep_started, dep_completed, dep_done, dep_failed, dep_exc,
                   dep_failed_at, caseVars, configVars, hookVars>>

\* lines 240-242: except Exception as e
DeployExcept ==
    /\ dep_pc = "except"
    /\ dep_log' = Append(dep_log, <<"CRITICAL", "Deployment failed">>)
    /\ dep_caller' = deploy_except(dep_exc)
    /\ dep_pc' = "done"
    /\ UNCHANGED <<dep_started, dep_completed, dep_done, dep_failed, dep_exc,
                   dep_failed_at, caseVars, configVars, hookVars>>

NextDeploy ==
    \/ Execute
    \/ SerialTaskReturns
    \/ SerialTaskRaises
    \/ ParallelJobEnds
    \/ ParallelAbort
    \/ ExecuteReturns
    \/ LogCompleted
    \/ DeployExcept

SpecDeploy == InitDeploy /\ [][NextDeploy]_vars

-----------------------------------------------------------------------------
(* Properties of deploy *)

\* C11: the steps begin in the fixed order of the thirteen; a step has begun
\* only when every step before it has returned; once a step has raised no
\* later step begins, and deploy ends by leaving its caller with the
\* exception, never by returning; and the successful completion is logged
\* only when all thirteen steps have returned.
C11_StepsInOrderFailureRaised ==
    LET order == <<"create_hduser", "update_hosts_file", "install_java",
                   "update_bashrc", "disable_ipv6", "download_hadoop",
                   "download_test_files", "configure_hadoop", "format_namenode",
                   "start_hadoop", "test_mapreduce", "verify_mapreduce",
                   "stop_hadoop">>
        n == Len(dep_started)
    IN  /\ n <= Len(order)
        /\ dep_started = SubSeq(order, 1, n)
        /\ n >= 1 => dep_completed \in {SubSeq(order, 1, n - 1), SubSeq(order, 1, n)}
        /\ dep_failed_at # 0 =>
              /\ n = dep_failed_at
              /\ dep_completed = SubSeq(order, 1, n - 1)
              /\ dep_caller # "returned"
              /\ dep_pc = "done" => dep_caller \in {"Exception", "SystemExit"}
        /\ (\E i \in 1..Len(dep_log) : dep_log[i][2] = "Deployment completed successfully.")
              => (dep_completed = order /\ dep_failed_at = 0)

\* C11 happens: deploy has ended after a step past the first raised an
\* Exception, which the handler of deploy logged and raised to the caller.
C11_Witness ==
    /\ dep_pc = "done"
    /\ dep_failed_at > 1
    /\ dep_exc = "Exception"
    /\ dep_caller = "Exception"
    /\ Len(dep_completed) = dep_failed_at - 1
    /\ \E i \in 1..Len(dep_log) : dep_log[i][1] = "CRITICAL"

====
